---- MODULE Spec2Model ----
(***************************************************************************)
(* Phase execution and reporting engine of genesis_reconstruction.py:      *)
(* GenesisBootstrap.execute_phase, phase_11_self_test and the loop of      *)
(* main().  The phase list of main() is generalised to any list of         *)
(* registered phases of bounded length, the phase actions to what they do  *)
(* to the base directory (the paths the self-test probes) and to the       *)
(* outcomes an awaited executor can have: it returns, or it raises.        *)
(***************************************************************************)
EXTENDS Integers, Sequences, FiniteSets, TLC

\* ------------------------------------------------------------------ bounds
\* longest phase list handed to the loop of main()
MaxPhases == 3
\* how many of the registered phases of main() the phase lists draw from
PoolSize == 3

\* --------------------------------------------------------------- constants
\* Phase.SELF_TEST, the phase main() runs after the loop
SELF_TEST == "SELF_TEST"

\* the (Phase, executor) list of main(), in its order
RegisteredPhases ==
  << "FILESYSTEM", "CONFIG_MGMT", "LOGGING", "DATABASE", "ANALYZER",
     "QUALITY_GATES", "AI_COMMANDER", "ORCHESTRATOR", "INJECTION_ENGINE",
     "DASHBOARD" >>

\* Phase.<name>.value: the ordinal execute_phase displays
Ordinal(phase) ==
  CASE phase = "INITIALIZATION"   -> 1
    [] phase = "FILESYSTEM"       -> 2
    [] phase = "CONFIG_MGMT"      -> 3
    [] phase = "LOGGING"          -> 4
    [] phase = "DATABASE"         -> 5
    [] phase = "ANALYZER"         -> 6
    [] phase = "QUALITY_GATES"    -> 7
    [] phase = "AI_COMMANDER"     -> 8
    [] phase = "ORCHESTRATOR"     -> 9
    [] phase = "AGENTS"           -> 10
    [] phase = "TOOL_REGISTRY"    -> 11
    [] phase = "INJECTION_ENGINE" -> 12
    [] phase = "MIGRATION"        -> 13
    [] phase = "DASHBOARD"        -> 14
    [] phase = "SELF_TEST"        -> 15

\* Status.SUCCESS.value and Status.ERROR.value (the glyphs, by their names)
StatusSuccess == "success"
StatusError == "error"

\* Optional[...] values: None, and a present value
None == << >>
Some(v) == << v >>

\* the phases the phase lists are built from
PhasePool == { RegisteredPhases[i] : i \in 1..PoolSize }

\* every list of at most MaxPhases phases
PhaseLists == UNION { [1..n -> PhasePool] : n \in 0..MaxPhases }

\* the paths each phase action creates under base_path, in the order of its
\* code (of phase 1 the directories that later phases write into)
Writes(phase) ==
  CASE phase = "FILESYSTEM"       -> << "core", "api", "shared/database", "shared/logger" >>
    [] phase = "CONFIG_MGMT"      -> << "core/config.py" >>
    [] phase = "LOGGING"          -> << "shared/logger/structured_logger.py" >>
    [] phase = "DATABASE"         -> << "shared/database/models.py" >>
    [] phase = "ANALYZER"         -> << "core/analyzer.py" >>
    [] phase = "QUALITY_GATES"    -> << "core/dci.py" >>
    [] phase = "AI_COMMANDER"     -> << "core/ai_commander.py" >>
    [] phase = "ORCHESTRATOR"     -> << "core/orchestrator.py" >>
    [] phase = "INJECTION_ENGINE" -> << "core/injection_engine.py" >>
    [] phase = "DASHBOARD"        -> << "api/server.py" >>
    [] OTHER                      -> << >>

\* the directory a path is written into with Path.write_text, which must
\* exist; mkdir(parents=True, exist_ok=True) needs none
ParentOf(path) ==
  CASE path \in { "core/config.py", "core/analyzer.py", "core/dci.py",
                  "core/ai_commander.py", "core/orchestrator.py",
                  "core/injection_engine.py" }          -> { "core" }
    [] path = "shared/logger/structured_logger.py"      -> { "shared/logger" }
    [] path = "shared/database/models.py"               -> { "shared/database" }
    [] path = "api/server.py"                           -> { "api" }
    [] OTHER                                            -> { }

\* a checks dictionary whose last probe is a file no phase of main() writes
ChecksUncovered ==
  << [name |-> "Verzeichnisstruktur", path |-> "core"],
     [name |-> "Konfiguration",       path |-> "core/config.py"],
     [name |-> "Logger",              path |-> "shared/logger/structured_logger.py"],
     [name |-> "ORM-Modelle",         path |-> "shared/database/models.py"],
     [name |-> "AST-Analyzer",        path |-> "core/analyzer.py"],
     [name |-> "DCI",                 path |-> "core/dci.py"],
     [name |-> "AI-Commander",        path |-> "core/ai_commander.py"],
     [name |-> "Orchestrator",        path |-> "core/orchestrator.py"],
     [name |-> "Injektions-Engine",   path |-> "core/injection_engine.py"],
     [name |-> "API-Server",          path |-> "api/main.py"] >>

\* the checks dictionary of phase_11_self_test, in insertion order
Checks ==
  << [name |-> "Verzeichnisstruktur", path |-> "core"],
     [name |-> "Konfiguration",       path |-> "core/config.py"],
     [name |-> "Logger",              path |-> "shared/logger/structured_logger.py"],
     [name |-> "ORM-Modelle",         path |-> "shared/database/models.py"],
     [name |-> "AST-Analyzer",        path |-> "core/analyzer.py"],
     [name |-> "DCI",                 path |-> "core/dci.py"],
     [name |-> "AI-Commander",        path |-> "core/ai_commander.py"],
     [name |-> "Orchestrator",        path |-> "core/orchestrator.py"],
     [name |-> "Injektions-Engine",   path |-> "core/injection_engine.py"],
     [name |-> "API-Server",          path |-> "api/server.py"] >>

\* every path the phase actions of main() create
FullTree ==
  UNION { { Writes(RegisteredPhases[i])[j] :
              j \in 1..Len(Writes(RegisteredPhases[i])) } :
          i \in 1..Len(RegisteredPhases) }

\* the base directory main() starts in: fresh, or left by an earlier
\* complete run
InitialFs == { {}, FullTree }

\* the errors an awaited executor raises: class and args
Errors ==
  { [cls |-> "Exception",         args |-> << >>],
    [cls |-> "Exception",         args |-> << "boom" >>],
    [cls |-> "OSError",           args |-> << "ENOENT" >>],
    [cls |-> "KeyboardInterrupt", args |-> << >>],
    [cls |-> "SystemExit",        args |-> << "1" >>] }

\* the errors raised in the runs of the phase list of main() itself
MainErrors ==
  { [cls |-> "Exception",         args |-> << "boom" >>],
    [cls |-> "KeyboardInterrupt", args |-> << >>] }

\* the classes that derive from Exception
ExceptionClasses == { "Exception", "OSError" }

\* str(e) of BaseException: '' without args, the argument when there is one
Str(e) == IF Len(e.args) = 0 THEN "" ELSE e.args[1]

\* a clause that catches the class Exception itself only
CaughtExact(e) == e.cls = "Exception"

\* `except Exception as e` of execute_phase: does the clause catch e
Caught(e) == e.cls \in ExceptionClasses

\* ------------------------------------------------------------------- state
VARIABLES
  phases,            \* the phases list of main()
  fs,                \* the paths that exist under base_path
  pc,                \* position of main(): loop, running, report, done, aborted
  idx,               \* 1-based position of the loop; Len(phases)+1 is the self-test
  now,               \* datetime.now()
  start_time,        \* start_time of the execute_phase call in progress
  invoked,           \* the phases whose executor was awaited, in order
  outcomes,          \* how each awaited executor ended: None, or the error raised
  result,            \* what the last awaited executor returned
  logs,              \* GenesisBootstrap.logs
  sink,              \* the lines execute_phase has sent to self.logger
  execution_report,  \* GenesisBootstrap.execution_report
  success_count,     \* success_count of main()
  self_test_success, \* self_test_success of main()
  summary,           \* the final summary main() prints
  persisted,         \* the report written to reconstruction_report_*.json
  fs0,               \* the paths that existed under base_path when main() began
  exit_code          \* the exit status of the process, once it has ended

vars == << phases, fs, pc, idx, now, start_time, invoked, outcomes, result, logs,
           sink, execution_report, success_count, self_test_success, summary,
           persisted, fs0, exit_code >>

\* a loop over reversed(phases)
CurPhaseReversed ==
  IF idx <= Len(phases) THEN phases[Len(phases) - idx + 1] ELSE SELF_TEST

\* the phase the loop is at
CurPhase == IF idx <= Len(phases) THEN phases[idx] ELSE SELF_TEST

\* GenesisBootstrap.__init__ and the locals of main() before the loop, for
\* a phase list out of lists
Start(lists) ==
  /\ phases \in lists
  /\ fs \in InitialFs
  /\ pc = "loop"
  /\ idx = 1
  /\ now = 0
  /\ start_time = 0
  /\ invoked = << >>
  /\ outcomes = << >>
  /\ result = None
  /\ logs = << >>
  /\ sink = << >>
  /\ execution_report = [start_time |-> 0, phases |-> << >>, metrics |-> << >>]
  /\ success_count = 0
  /\ self_test_success = None
  /\ summary = None
  /\ persisted = None
  /\ fs0 = fs
  /\ exit_code = None

\* main() with any phase list within the bounds
Init == Start(PhaseLists)

\* main() with its own phase list
InitMain == Start({ RegisteredPhases })

\* --------------------------------------------------------- the executors
\* the first k paths of a phase action
Written(phase, k) == { Writes(phase)[i] : i \in 1..k }

\* can the phase action get through its first k writes in directory f:
\* write_text raises FileNotFoundError when the directory is missing
Reach(phase, k, f) ==
  \A i \in 1..k : ParentOf(Writes(phase)[i]) \subseteq (f \cup Written(phase, i - 1))

\* the loop of phase_11_self_test over checks.items(), from check i on:
\* all_passed = all_passed and result
RECURSIVE AllPassedFrom(_, _, _)
AllPassedFrom(i, all_passed, f) ==
  IF i > Len(Checks) THEN all_passed
  ELSE AllPassedFrom(i + 1, all_passed /\ (Checks[i].path \in f), f)

\* phase_11_self_test: all_passed starts True
AllPassed(f) == AllPassedFrom(1, TRUE, f)

\* the names of the checks that fail in directory f
FailingChecks(f) == { Checks[i].name : i \in { j \in 1..Len(Checks) : Checks[j].path \notin f } }

\* what the executor of a phase returns: phase_1..phase_10 return True,
\* phase_11_self_test returns all_passed
ExecutorResult(selftest, f) == IF selftest THEN AllPassed(f) ELSE TRUE

\* ---------------------------------------------------------- execute_phase
\* the ExecutionLog of the try branch
SuccessLog(t, phase, duration) ==
  [ timestamp |-> t, phase |-> phase, status |-> StatusSuccess,
    message |-> "Phase erfolgreich abgeschlossen", duration_ms |-> duration,
    errors |-> None ]

\* an except branch that logs the status of the try branch
ErrorLogAsSuccess(t, phase, duration, e) ==
  [ timestamp |-> t, phase |-> phase, status |-> StatusSuccess,
    message |-> "Fehler: " \o Str(e), duration_ms |-> duration,
    errors |-> Some(<< Str(e) >>) ]

\* an except branch that leaves errors at its default
ErrorLogNoErrors(t, phase, duration, e) ==
  [ timestamp |-> t, phase |-> phase, status |-> StatusError,
    message |-> "Fehler: " \o Str(e), duration_ms |-> duration,
    errors |-> None ]

\* the ExecutionLog of the except branch
ErrorLog(t, phase, duration, e) ==
  [ timestamp |-> t, phase |-> phase, status |-> StatusError,
    message |-> "Fehler: " \o Str(e), duration_ms |-> duration,
    errors |-> Some(<< Str(e) >>) ]

\* self.logger.info(f"PHASE {phase.value}: {phase.name}")
HeaderLine(phase) ==
  [ level |-> "INFO", kind |-> "header", phase |-> phase, ordinal |-> Ordinal(phase) ]

\* self.logger.info(f"{Status.SUCCESS.value} Phase {phase.name} erfolgreich ...")
SuccessLine(phase, duration) ==
  [ level |-> "INFO", kind |-> "outcome", phase |-> phase,
    status |-> StatusSuccess, duration_ms |-> duration ]

\* self.logger.error(f"{Status.ERROR.value} Phase {phase.name} fehlgeschlagen: {e}")
ErrorLine(phase, e) ==
  [ level |-> "ERROR", kind |-> "outcome", phase |-> phase,
    status |-> StatusError, error |-> Str(e) ]

\* a logger call that is left out
EmitNothing(lines, line) == lines

\* the logger hands the line to its handlers at the call
Emit(lines, line) == Append(lines, line)

\* self.logs = [log]: the list started again at every phase
AppendLogReset(ls, log) == << log >>

\* the log put in front of the list
AppendLogFront(ls, log) == << log >> \o ls

\* self.logs.append(log)
AppendLog(ls, log) == Append(ls, log)

\* the report entry of the try branch
SuccessEntry(start, duration) ==
  [ status |-> "SUCCESS", duration_ms |-> duration, timestamp |-> start ]

\* an except branch that writes the status of the try branch
ErrorEntryAsSuccess(e, duration) ==
  [ status |-> "SUCCESS", error |-> Str(e), duration_ms |-> duration ]

\* an except branch that reports type(e).__name__
ErrorEntryClassName(e, duration) ==
  [ status |-> "ERROR", error |-> e.cls, duration_ms |-> duration ]

\* the report entry of the except branch
ErrorEntry(e, duration) ==
  [ status |-> "ERROR", error |-> Str(e), duration_ms |-> duration ]

\* setdefault(phase.name, entry): the first entry of a name is kept
SetPhaseEntryKeepFirst(report, name, entry) ==
  [ report EXCEPT !.phases = @ @@ (name :> entry) ]

\* the duration also kept under execution_report["metrics"]
SetPhaseEntryWithMetric(report, name, entry) ==
  [ report EXCEPT !.phases = (name :> entry) @@ @,
                  !.metrics = (name :> entry.duration_ms) @@ @ ]

\* the phases map replaced by the one entry
SetPhaseEntryReplace(report, name, entry) ==
  [ report EXCEPT !.phases = (name :> entry) ]

\* end_time stamped whenever a phase is entered in the report
SetPhaseEntryStamped(report, name, entry) ==
  [ end_time |-> 0 ] @@ [ report EXCEPT !.phases = (name :> entry) @@ @ ]

\* self.execution_report["phases"][phase.name] = entry
SetPhaseEntry(report, name, entry) ==
  [ report EXCEPT !.phases = (name :> entry) @@ @ ]

\* return result: the value of the executor handed on
ReturnOnResultTruthy(r) == r

\* the value execute_phase returns after an executor that returned result
ReturnOnResult(r) == TRUE

\* ------------------------------------------------------------------ main
\* a main() that returns at the first execute_phase that gave False
PcAfterPhaseStop(i, n, success) ==
  IF ~success THEN "stopped" ELSE IF i > n THEN "report" ELSE "loop"

\* where main() goes after execute_phase returned for position i of n
\* phases: on through the loop, then the self-test, then the final report
PcAfterPhase(i, n, success) == IF i > n THEN "report" ELSE "loop"

\* a loop that breaks at the first failed phase
NextIdxBreak(i, n, success) == IF ~success /\ i <= n THEN n + 1 ELSE i + 1

\* a loop that runs a failed phase again
NextIdxRetry(i, n, success) == IF success THEN i + 1 ELSE i

\* the position main() is at after execute_phase returned for position i:
\* the for loop has no break, and the self-test follows the loop
NextIdx(i, n, success) == i + 1

\* a loop that counts every phase
CountSuccessAlways(count, i, n, success) == IF i <= n THEN count + 1 ELSE count

\* a count that takes in the self-test
CountSuccessWithSelfTest(count, i, n, success) ==
  IF success THEN count + 1 ELSE count

\* if success: success_count += 1, inside the loop only
CountSuccess(count, i, n, success) ==
  IF i <= n /\ success THEN count + 1 ELSE count

\* self_test_success = await bootstrap.execute_phase(Phase.SELF_TEST, ...)
SelfTestSuccess(old, i, n, success) == IF i > n THEN Some(success) ELSE old

\* the lines main() prints in the final report
Summary(count, n, selftest) ==
  [ success_count |-> count, total_phases |-> n, self_test |-> selftest,
    overall |-> (count = n /\ selftest) ]

\* the three keys main() adds to the report before exporting it
FinishReport(report, t, count, n) ==
  [ end_time |-> t, success_count |-> count, total_phases |-> n ] @@ report

\* a main() that ends with sys.exit(1) unless every phase and the self-test
\* succeeded
ExitOnReturnFailing(count, n, selftest) == IF count = n /\ selftest THEN 0 ELSE 1

\* the exit status after asyncio.run(main()) returned: main() returns None
\* whatever it counted, and the script ends
ExitOnReturn(count, n, selftest) == 0

\* the exit status after asyncio.run(main()) raised e: the interpreter ends
\* with 130 on KeyboardInterrupt, and with 1 on SystemExit("1") or any
\* other error
ExitOnError(e) == IF e.cls = "KeyboardInterrupt" THEN 130 ELSE 1

\* an executor started and not awaited
PcNoAwait == "loop"

\* where main() is while `await executor_func()` has not returned
PcOnAwait == "running"

\* --------------------------------------------------------------- actions
\* execute_phase up to `await executor_func()`
BeginPhase ==
  /\ pc = "loop"
  /\ pc' = PcOnAwait
  /\ start_time' = now
  /\ invoked' = Append(invoked, CurPhase)
  /\ sink' = Emit(sink, HeaderLine(CurPhase))
  /\ UNCHANGED << phases, fs, idx, now, outcomes, result, logs,
                  execution_report, success_count, self_test_success,
                  summary, persisted, fs0, exit_code >>

\* the executor returns: the try branch of execute_phase, and main() up to
\* the next execute_phase call
PhaseReturns ==
  /\ pc = "running"
  /\ LET p == CurPhase
         n == Len(phases)
         k == Len(Writes(p))
         r == ExecutorResult(idx > n, fs)
         t == now + 1
         duration == t - start_time
         success == ReturnOnResult(r)
     IN /\ Reach(p, k, fs)
        /\ fs' = fs \cup Written(p, k)
        /\ result' = Some(r)
        /\ outcomes' = Append(outcomes, None)
        /\ now' = t
        /\ logs' = AppendLog(logs, SuccessLog(t, p, duration))
        /\ sink' = Emit(sink, SuccessLine(p, duration))
        /\ execution_report' = SetPhaseEntry(execution_report, p, SuccessEntry(start_time, duration))
        /\ success_count' = CountSuccess(success_count, idx, n, success)
        /\ self_test_success' = SelfTestSuccess(self_test_success, idx, n, success)
        /\ pc' = PcAfterPhase(idx, n, success)
        /\ idx' = NextIdx(idx, n, success)
  /\ UNCHANGED << phases, start_time, invoked, summary, persisted, fs0, exit_code >>

\* the executor raises an error the except clause catches, after k of its
\* writes: the except branch of execute_phase, and main() up to the next
\* execute_phase call
Fails(errors) ==
  /\ pc = "running"
  /\ \E e \in errors, k \in 0..Len(Writes(CurPhase)) :
       LET p == CurPhase
           n == Len(phases)
           t == now + 1
           duration == t - start_time
       IN /\ Caught(e)
          /\ Reach(p, k, fs)
          /\ fs' = fs \cup Written(p, k)
          /\ outcomes' = Append(outcomes, Some(e))
          /\ now' = t
          /\ logs' = AppendLog(logs, ErrorLog(t, p, duration, e))
          /\ sink' = Emit(sink, ErrorLine(p, e))
          /\ execution_report' = SetPhaseEntry(execution_report, p, ErrorEntry(e, duration))
          /\ success_count' = CountSuccess(success_count, idx, n, FALSE)
          /\ self_test_success' = SelfTestSuccess(self_test_success, idx, n, FALSE)
          /\ pc' = PcAfterPhase(idx, n, FALSE)
          /\ idx' = NextIdx(idx, n, FALSE)
  /\ UNCHANGED << phases, start_time, invoked, result, summary, persisted,
                  fs0, exit_code >>

\* the executor raises an error the except clause does not catch: it
\* leaves execute_phase and main()
Aborts(errors) ==
  /\ pc = "running"
  /\ \E e \in errors, k \in 0..Len(Writes(CurPhase)) :
       /\ ~Caught(e)
       /\ Reach(CurPhase, k, fs)
       /\ fs' = fs \cup Written(CurPhase, k)
       /\ outcomes' = Append(outcomes, Some(e))
       /\ now' = now + 1
       /\ pc' = "aborted"
       /\ exit_code' = Some(ExitOnError(e))
  /\ UNCHANGED << phases, idx, start_time, invoked, result, logs, sink,
                  execution_report, success_count, self_test_success,
                  summary, persisted, fs0 >>

\* main() after the self-test: print the summary, complete the report and
\* write it
FinalReport ==
  /\ pc = "report"
  /\ summary' = Some(Summary(success_count, Len(phases), self_test_success[1]))
  /\ execution_report' = FinishReport(execution_report, now, success_count, Len(phases))
  /\ persisted' = Some(execution_report')
  /\ pc' = "done"
  /\ exit_code' = Some(ExitOnReturn(success_count, Len(phases), self_test_success[1]))
  /\ UNCHANGED << phases, fs, idx, now, start_time, invoked, outcomes,
                  result, logs, sink, success_count, self_test_success,
                  fs0 >>

\* an executor raises one of the errors of the bounded runs that the except
\* clause catches
PhaseFails == Fails(Errors)

\* an executor raises one of them that the except clause does not catch
PhaseAborts == Aborts(Errors)

\* an executor of the phase list of main() raises Exception("boom")
MainPhaseFails == Fails(MainErrors)

\* an executor of the phase list of main() raises KeyboardInterrupt
MainPhaseAborts == Aborts(MainErrors)

Next == BeginPhase \/ PhaseReturns \/ PhaseFails \/ PhaseAborts \/ FinalReport

Spec == Init /\ [][Next]_vars

NextMain ==
  BeginPhase \/ PhaseReturns \/ MainPhaseFails \/ MainPhaseAborts \/ FinalReport

\* the runs of main() as it is written, with its ten phases
SpecMain == InitMain /\ [][NextMain]_vars

\* the runs of main() in which main() goes on whenever it is not awaiting
\* (it is straight-line code between the awaits) and every awaited executor
\* ends, by returning or by raising
SpecMainFair ==
  /\ SpecMain
  /\ WF_vars(BeginPhase)
  /\ WF_vars(PhaseReturns \/ MainPhaseFails \/ MainPhaseAborts)
  /\ WF_vars(FinalReport)

\* ------------------------------------------------------------------ types
TypeOK ==
  /\ phases \in PhaseLists
  /\ fs \subseteq FullTree
  /\ pc \in { "loop", "running", "report", "done", "aborted" }
  /\ idx \in 1..(Len(phases) + 2)
  /\ now \in 0..(Len(phases) + 1)
  /\ Len(logs) <= Len(phases) + 1
  /\ success_count \in 0..Len(phases)


\* ------------------------------------------------------------ properties
\* the phases a run attempts, in order: the list, then the self-test
AllPhases == phases \o << SELF_TEST >>

\* the phase names of a sequence of phases
Names(seq) == { seq[i] : i \in 1..Len(seq) }

\* the phase at position i raised an error
Raised(i) == i \in 1..Len(outcomes) /\ outcomes[i] # None

\* the phase at position i raised an error derived from Exception
RaisedException(i) == Raised(i) /\ outcomes[i][1].cls \in ExceptionClasses

\* C1: a completed run leaves exactly N+1 log entries, entry i with the
\* name of the i-th phase of the list and the last one that of the self-test
C1_LogPerPhaseInOrder ==
  pc = "done" =>
    /\ Len(logs) = Len(phases) + 1
    /\ \A i \in 1..Len(logs) : logs[i].phase = AllPhases[i]

C1_Witness ==
  /\ pc = "done"
  /\ Len(phases) >= 2
  /\ phases[1] # phases[2]
  /\ \E i \in 1..Len(logs) : logs[i].status = StatusError
  /\ \E i \in 1..Len(logs) : logs[i].status = StatusSuccess

C3_SelfCheckFailsOnFalseProbe ==
  ( /\ Len(outcomes) = Len(AllPhases)
    /\ outcomes[Len(AllPhases)] = None
    /\ FailingChecks(fs) # {} ) =>
    /\ logs[Len(AllPhases)].status = StatusError
    /\ execution_report.phases[SELF_TEST].status = "ERROR"

\* C4: the self-test line of the summary reports passed exactly when every
\* probe of the self-test is true
C4_SummaryIsAllPassed ==
  ( /\ pc = "done"
    /\ outcomes[Len(AllPhases)] = None ) =>
    summary[1].self_test = (FailingChecks(fs) = {})

C6_SuccessCount ==
  /\ success_count <= Len(phases)
  /\ "success_count" \in DOMAIN execution_report =>
       execution_report.success_count <= execution_report.total_phases
  /\ pc = "done" =>
       /\ execution_report.success_count =
            Cardinality({ i \in 1..Len(phases) : logs[i].status = StatusSuccess })
       /\ execution_report.total_phases = Len(phases)

C6_Witness ==
  /\ pc = "done"
  /\ Len(phases) >= 2
  /\ execution_report.success_count = 1
  /\ logs[Len(AllPhases)].status = StatusSuccess

\* the report entry written together with the last log entry
LastEntry == execution_report.phases[logs[Len(logs)].phase]

\* C7 as stated: the report entry of a phase whose action failed has status
\* ERROR and a non-empty error description
C7_ErrorEntryNonEmpty ==
  (Len(logs) > 0 /\ logs[Len(logs)].status = StatusError) =>
    /\ LastEntry.status = "ERROR"
    /\ LastEntry.error # ""

\* C7 amended: the report entry of a phase whose action failed with an error
\* derived from Exception has status ERROR and as error description str(e)
\* of the error raised, which is empty exactly when the error has no text
C7_ErrorEntryIsStr ==
  (Len(logs) > 0 /\ RaisedException(Len(logs))) =>
    LET e == outcomes[Len(logs)][1]
    IN /\ LastEntry.status = "ERROR"
       /\ "error" \in DOMAIN LastEntry
       /\ LastEntry.error = (IF e.args = << >> THEN "" ELSE e.args[1])
       /\ (LastEntry.error = "") = (e.args = << >> \/ e.args[1] = "")

C7_Witness ==
  /\ Len(logs) > 0
  /\ RaisedException(Len(logs))
  /\ outcomes[Len(logs)][1].args = << >>
  /\ LastEntry.error = ""

\* C8: a phase list with a repeated phase is rejected before any phase
\* executes: no action is invoked, nothing is logged or entered in the report
C8_DuplicateRejected ==
  (\E i, j \in 1..Len(phases) : i < j /\ phases[i] = phases[j]) =>
    /\ invoked = << >>
    /\ logs = << >>
    /\ DOMAIN execution_report.phases = {}

\* C9: after a run completes the report has an entry under the name of every
\* phase attempted and under no other name: N+1 entries when the names of
\* the list are pairwise distinct
C9_ReportEntryPerPhase ==
  pc = "done" =>
    /\ DOMAIN execution_report.phases = Names(AllPhases)
    /\ \A name \in Names(AllPhases) :
         execution_report.phases[name].status \in { "SUCCESS", "ERROR" }
    /\ Cardinality(Names(phases)) = Len(phases) =>
         Cardinality(DOMAIN execution_report.phases) = Len(phases) + 1

C9_Witness ==
  /\ pc = "done"
  /\ Len(phases) >= 2
  /\ Cardinality(Names(phases)) = Len(phases)
  /\ Cardinality(DOMAIN execution_report.phases) = Len(phases) + 1

\* every phase of the list and the self-test have their log entry
AllLogged ==
  /\ Len(logs) = Len(AllPhases)
  /\ \A i \in 1..Len(logs) : logs[i].phase = AllPhases[i]

\* C10: end_time is absent from the report of __init__ and from every state
\* before the final report, it is written in a state where every phase and
\* the self-test have their log entry, and once it is there the report no
\* longer changes
C10_EndTimeOnceAtEnd ==
  /\ "end_time" \notin DOMAIN execution_report
  /\ [][ /\ ("end_time" \in DOMAIN execution_report') = (pc' = "done")
         /\ "end_time" \in DOMAIN execution_report' => AllLogged'
         /\ "end_time" \in DOMAIN execution_report =>
              execution_report' = execution_report ]_vars

C10_Witness ==
  /\ pc = "done"
  /\ Len(phases) >= 1
  /\ "end_time" \in DOMAIN execution_report
  /\ execution_report.end_time = Len(phases) + 1
  /\ AllLogged


\* C11: the ordinals of the phases a run executes, in execution order, are
\* 1, 2, 3, ...: strictly increasing and contiguous from 1
C11_OrdinalsContiguousFromOne ==
  \A i \in 1..Len(invoked) : Ordinal(invoked[i]) = i

\* C12: the phases of main() are executed in strictly increasing ordinal
\* order, and the self-test, of the highest ordinal, is invoked last
C12_OrdinalOrder ==
  /\ \A i, j \in 1..Len(invoked) :
       i < j => Ordinal(invoked[i]) < Ordinal(invoked[j])
  /\ pc = "done" =>
       /\ invoked[Len(invoked)] = SELF_TEST
       /\ Len(invoked) = Len(phases) + 1
       /\ \A i \in 1..Len(phases) : Ordinal(phases[i]) < Ordinal(SELF_TEST)

C12_Witness ==
  /\ pc = "done"
  /\ phases = RegisteredPhases
  /\ Len(invoked) = 11
  /\ \E i \in 1..Len(logs) : logs[i].status = StatusError

\* log entry i is the last one of its phase name so far: the report entry
\* under that name is the one written with it
Latest(i) == \A j \in (i + 1)..Len(logs) : logs[j].phase # logs[i].phase

\* the text the error raised at position i was raised with
RaisedText(i) ==
  IF outcomes[i][1].args = << >> THEN "" ELSE outcomes[i][1].args[1]

\* C13: the status of log entry i is success where action i completed and
\* error where it failed, the report entry of a failed phase has the error
\* description the action raised, verbatim, and success_count is the number
\* of completed actions of the list: outcomes ok, fail "boom", ok give
\* success, error, success, success_count 2 and error "boom"
C13_StatusesMirrorOutcomes ==
  /\ \A i \in 1..Len(logs) :
       /\ logs[i].status = (IF outcomes[i] = None THEN StatusSuccess ELSE StatusError)
       /\ (Raised(i) /\ Latest(i)) =>
            execution_report.phases[logs[i].phase].error = RaisedText(i)
  /\ pc = "done" =>
       execution_report.success_count =
         Cardinality({ i \in 1..Len(phases) : outcomes[i] = None })

C13_Witness ==
  /\ pc = "done"
  /\ phases = << "FILESYSTEM", "CONFIG_MGMT", "LOGGING" >>
  /\ outcomes[1] = None
  /\ outcomes[2] = Some([cls |-> "Exception", args |-> << "boom" >>])
  /\ outcomes[3] = None
  /\ [ i \in 1..3 |-> logs[i].status ] = << StatusSuccess, StatusError, StatusSuccess >>
  /\ execution_report.success_count = 2
  /\ execution_report.phases["CONFIG_MGMT"].error = "boom"

\* C14: total_phases is the length of the phase list, the self-test not
\* counted; with an empty list the self-test is the one action invoked,
\* total_phases and success_count are 0; and what the self-test returns is
\* decided by its probes alone
C14_TotalPhases ==
  /\ pc = "done" =>
       /\ execution_report.total_phases = Len(phases)
       /\ summary[1].total_phases = Len(phases)
       /\ outcomes[Len(outcomes)] = None => result = Some(FailingChecks(fs) = {})
  /\ (pc = "done" /\ phases = << >>) =>
       /\ invoked = << SELF_TEST >>
       /\ execution_report.total_phases = 0
       /\ execution_report.success_count = 0
       /\ summary[1].success_count = 0

C14_Witness ==
  /\ pc = "done"
  /\ phases = << >>
  /\ invoked = << SELF_TEST >>
  /\ result = Some(FALSE)
  /\ execution_report.total_phases = 0

C16_EntryKeys ==
  \A name \in DOMAIN execution_report.phases :
    LET entry == execution_report.phases[name]
    IN /\ { "status", "duration_ms", "timestamp" } \subseteq DOMAIN entry
       /\ ("error" \in DOMAIN entry) = (entry.status = "ERROR")

\* C17: the status of every log entry is success or error, and its errors
\* list is there exactly when the status is error, and then is not empty
C17_LogStatusAndErrors ==
  \A i \in 1..Len(logs) :
    /\ logs[i].status \in { StatusSuccess, StatusError }
    /\ (logs[i].errors # None) = (logs[i].status = StatusError)
    /\ logs[i].errors # None => Len(logs[i].errors[1]) >= 1

C17_Witness ==
  /\ Len(logs) >= 2
  /\ logs[1].status = StatusError
  /\ logs[1].errors # None
  /\ logs[2].status = StatusSuccess
  /\ logs[2].errors = None

C19_OneActionAtATime ==
  /\ Len(invoked) - Len(outcomes) \in { 0, 1 }
  /\ (pc = "running") = (Len(invoked) = Len(outcomes) + 1)
  /\ pc = "running" => Len(logs) = Len(invoked) - 1

C19_Witness ==
  /\ pc = "running"
  /\ Len(invoked) = 2
  /\ Len(outcomes) = 1
  /\ Len(logs) = 1

\* C20: no action is invoked a second time: the actions invoked are the
\* phases of the list in order, then the self-test, each position once; a
\* run that reaches its end has invoked every one of them exactly once,
\* whether it returned or raised
C20_NoRetry ==
  /\ Len(invoked) <= Len(AllPhases)
  /\ \A i \in 1..Len(invoked) : invoked[i] = AllPhases[i]
  /\ Len(outcomes) <= Len(invoked)
  /\ pc = "done" =>
       /\ Len(invoked) = Len(AllPhases)
       /\ Len(outcomes) = Len(AllPhases)

C20_Witness ==
  /\ pc = "done"
  /\ Len(phases) >= 2
  /\ Raised(1)
  /\ Raised(Len(AllPhases))
  /\ Len(invoked) = Len(phases) + 1

\* C21: the log sequence is append-only. Every step leaves logs as it is or
\* adds exactly one entry at its end: the entries already there keep their
\* positions and their values.
C21_LogsAppendOnly ==
  [][ \/ logs' = logs
      \/ /\ Len(logs') = Len(logs) + 1
         /\ SubSeq(logs', 1, Len(logs)) = logs ]_vars

\* a run that has appended a third entry behind an error entry and a
\* success entry
C21_Witness ==
  /\ Len(logs) = 3
  /\ logs[1].status = StatusError
  /\ logs[2].status = StatusSuccess
  /\ logs[1].timestamp < logs[3].timestamp

\* C24: what execute_phase records and returns depends only on whether the
\* executor raised. An executor that returned, whatever it returned (False
\* included), is logged as success and counted as True by main(): in the
\* loop it adds one to success_count, after the loop it makes
\* self_test_success True. execute_phase returned False only for an
\* executor that raised.
C24_OutcomeOnlyOnRaise ==
  LET n == Len(phases)
      done == Len(logs)
      returned == { i \in 1..done : outcomes[i] = None }
  IN /\ \A i \in 1..done : (logs[i].status = StatusSuccess) <=> (i \in returned)
     /\ success_count = Cardinality(returned \cap (1..n))
     /\ self_test_success # None =>
          /\ done = n + 1
          /\ self_test_success = Some((n + 1) \in returned)
     /\ (done = n + 1 /\ (n + 1) \in returned) =>
          /\ result \in { Some(TRUE), Some(FALSE) }
          /\ self_test_success = Some(TRUE)

\* the self-test returned False and execute_phase logged success and
\* returned True
C24_Witness ==
  /\ Len(logs) = Len(phases) + 1
  /\ result = Some(FALSE)
  /\ outcomes[Len(outcomes)] = None
  /\ logs[Len(logs)].phase = SELF_TEST
  /\ logs[Len(logs)].status = StatusSuccess
  /\ self_test_success = Some(TRUE)

\* C25: in every reachable state the keys of execution_report["phases"]
\* are the phase names that occur in logs. So the report has at most as
\* many entries as the log, and as many exactly when the logged names are
\* pairwise distinct; a name logged twice has one report entry, the one of
\* its latest attempt, and both of its log entries remain.
C25_ReportKeysAreLoggedNames ==
  LET map == execution_report.phases
      distinct == \A i, j \in 1..Len(logs) : logs[i].phase = logs[j].phase => i = j
  IN /\ DOMAIN map = { logs[i].phase : i \in 1..Len(logs) }
     /\ Cardinality(DOMAIN map) <= Len(logs)
     /\ (Cardinality(DOMAIN map) = Len(logs)) <=> distinct
     /\ \A i \in 1..Len(logs) :
          /\ logs[i].phase = invoked[i]
          /\ Latest(i) =>
               /\ map[logs[i].phase].duration_ms = logs[i].duration_ms
               /\ (map[logs[i].phase].status = "SUCCESS")
                    <=> (logs[i].status = StatusSuccess)

\* mid-run, a phase name attempted twice: it failed first and then
\* succeeded, the log has both entries and the report the later one
C25_Witness ==
  /\ pc = "loop"
  /\ Len(logs) = 2
  /\ logs[1].phase = logs[2].phase
  /\ logs[1].status = StatusError
  /\ logs[2].status = StatusSuccess
  /\ Cardinality(DOMAIN execution_report.phases) = 1
  /\ execution_report.phases[logs[2].phase].status = "SUCCESS"

\* C26: executing a phase changes only that phase's own records. The step
\* in which execute_phase ends for phase P adds one entry for P to logs and
\* sets execution_report["phases"][P]; it leaves start_time, the metrics
\* map and the entries of every other phase as they were, and adds no
\* other key to the report. The metrics map is empty in every state.
C26_OnlyOwnRecords ==
  /\ [](execution_report.metrics = << >>)
  /\ [][ logs' # logs =>
           LET P == invoked[Len(invoked)]
               old == execution_report.phases
               new == execution_report'.phases
           IN /\ Len(logs') = Len(logs) + 1
              /\ logs'[Len(logs')].phase = P
              /\ DOMAIN new = DOMAIN old \cup { P }
              /\ new[P].duration_ms = logs'[Len(logs')].duration_ms
              /\ \A name \in DOMAIN old \ { P } : new[name] = old[name]
              /\ DOMAIN execution_report' = DOMAIN execution_report
              /\ execution_report'.start_time = execution_report.start_time
              /\ execution_report'.metrics = << >> ]_vars

\* a third phase has been recorded next to the entries of two other
\* phases, an ERROR one and a SUCCESS one, and metrics is empty
C26_Witness ==
  /\ Len(logs) = 3
  /\ Cardinality(DOMAIN execution_report.phases) = 3
  /\ execution_report.phases[logs[1].phase].status = "ERROR"
  /\ execution_report.phases[logs[2].phase].status = "SUCCESS"
  /\ execution_report.metrics = << >>
  /\ execution_report.start_time = 0

\* C27: the probes of the self-test are covered by the phases of main().
\* Probe i is a path that phase i of the list creates. So when the ten
\* phases have all returned, no probe fails when the self-test runs and the
\* self-test returns True. And in a base directory that was empty at the
\* start, a phase other than FILESYSTEM that raises without having written
\* leaves its file absent; a file absent when its phase is over is absent
\* in every later state, so its probe fails when the self-test runs, and
\* the self-test then returns False.
C27_ProbesCovered ==
  /\ [](/\ Len(Checks) = Len(phases)
        /\ \A i \in 1..Len(phases) :
             Checks[i].path \in Written(phases[i], Len(Writes(phases[i]))))
  /\ []((Len(invoked) = Len(phases) + 1 /\ \A i \in 1..Len(phases) : outcomes[i] = None) =>
          /\ FailingChecks(fs) = { }
          /\ (Len(outcomes) = Len(phases) + 1 /\ outcomes[Len(outcomes)] = None)
               => result = Some(TRUE))
  /\ [][ \A i \in 2..Len(phases) :
           ( /\ fs0 = { }
             /\ pc = "running" /\ idx = i
             /\ Len(outcomes') = i /\ outcomes'[i] # None
             /\ fs' = fs ) => Checks[i].path \notin fs' ]_vars
  /\ [][ \A i \in 1..Len(phases) :
           (idx > i /\ Checks[i].path \notin fs) =>
              /\ Checks[i].path \notin fs'
              /\ Checks[i].name \in FailingChecks(fs') ]_vars
  /\ []((/\ Len(outcomes) = Len(phases) + 1
         /\ outcomes[Len(outcomes)] = None
         /\ FailingChecks(fs) # { }) => result = Some(FALSE))

\* a run in an empty base directory in which CONFIG_MGMT raised before it
\* wrote core/config.py and the nine other phases returned: the self-test
\* ran and its only failing probe is the one of CONFIG_MGMT
C27_Witness ==
  /\ pc = "done"
  /\ fs0 = { }
  /\ Raised(2) /\ "core/config.py" \notin fs
  /\ \A i \in (1..Len(phases)) \ { 2 } : outcomes[i] = None
  /\ FailingChecks(fs) = { "Konfiguration" }
  /\ result = Some(FALSE)

====
